---- MODULE Spec2Model ----
(***************************************************************************)
(* wagtail.contrib.modeladmin.options: ModelAdmin, ModelAdminGroup,       *)
(* ThumbnailMixin, WagtailRegisterable and modeladmin_register.           *)
(*                                                                         *)
(* State: the hook registry of the host framework, the class handed to    *)
(* the modeladmin_register call that is followed, the object it built,    *)
(* the exception that call let escape, and the value returned by the      *)
(* latest method call on that object.  The registry the call meets holds  *)
(* what earlier modeladmin_register calls left in it.                     *)
(***************************************************************************)
EXTENDS Integers, Sequences, FiniteSets, TLC

VARIABLES modeladmin_class, instance, raised, hooks, result

vars == <<modeladmin_class, instance, raised, hooks, result>>

-----------------------------------------------------------------------------
(* Bounds of the model *)

\* longest inspect_view_fields / inspect_view_fields_exclude list a subclass declares
MaxFields == 2
\* most classes in a ModelAdminGroup subclass's items
MaxItems == 2
\* most modeladmin_register calls made before the one that is followed
MaxEarlier == 1
\* largest small menu_order a subclass declares (0..MaxMenuOrder, beside 999 and 1000)
MaxMenuOrder == 2

-----------------------------------------------------------------------------
(* Python values: None, int, bool, str (a sequence of characters), list,  *)
(* tuple, class.  Truthy is Python's truth test, Or is `x or y`.          *)

PyNone == [t |-> "None"]
PyInt(n) == [t |-> "int", v |-> n]
PyBool(b) == [t |-> "bool", v |-> b]
PyStr(s) == [t |-> "str", v |-> s]
PyList(s) == [t |-> "list", v |-> s]
PyTuple(s) == [t |-> "tuple", v |-> s]

Truthy(x) ==
    CASE x.t = "None" -> FALSE
      [] x.t = "int" -> x.v # 0
      [] x.t = "bool" -> x.v
      [] x.t \in {"str", "list", "tuple"} -> Len(x.v) > 0
      [] OTHER -> TRUE

Or(x, y) == IF Truthy(x) THEN x ELSE y

IsClass(x) == x.t = "class"

\* issubclass(c, base) for a class c: base is in c's method resolution order
issubclass(c, base) == base \in c.mro

\* the result of a call: a returned value or an escaping exception
Return(v) == [ok |-> TRUE, value |-> v]
Raise(e) == [ok |-> FALSE, exc |-> e]
Exception(e) == [t |-> "exception", type |-> e]

\* str.lower() over the ASCII letters
UpperChars == <<"A","B","C","D","E","F","G","H","I","J","K","L","M",
                "N","O","P","Q","R","S","T","U","V","W","X","Y","Z">>
LowerChars == <<"a","b","c","d","e","f","g","h","i","j","k","l","m",
                "n","o","p","q","r","s","t","u","v","w","x","y","z">>
LowerChar(c) ==
    IF \E k \in 1..Len(UpperChars) : UpperChars[k] = c
    THEN LowerChars[CHOOSE k \in 1..Len(UpperChars) : UpperChars[k] = c]
    ELSE c
lower(s) == [i \in 1..Len(s) |-> LowerChar(s[i])]

\* str.title(): a letter that follows no letter is upper-cased, any other lower-cased
title(s) ==
    LET UpperChar(c) ==
            IF \E k \in 1..Len(LowerChars) : LowerChars[k] = c
            THEN UpperChars[CHOOSE k \in 1..Len(LowerChars) : LowerChars[k] = c]
            ELSE c
        IsLetter(c) ==
            \E k \in 1..Len(LowerChars) : LowerChars[k] = c \/ UpperChars[k] = c
    IN [i \in 1..Len(s) |->
           IF i > 1 /\ IsLetter(s[i - 1]) THEN LowerChar(s[i]) ELSE UpperChar(s[i])]

\* list.extend(other): the list with other's elements after its own
list_extend(list, other) == PyList(list.v \o other.v)

-----------------------------------------------------------------------------
(* The data-model classes a subclass may point `model` at, and the other  *)
(* values a misconfigured subclass may put there.                         *)

Field(name, concrete, is_relation, auto_created, related_model) ==
    [name |-> name, concrete |-> concrete, is_relation |-> is_relation,
     auto_created |-> auto_created, related_model |-> related_model]

ImageModel == [t |-> "class", name |-> "Image", mro |-> {"Image", "Model", "object"}]
PageModel == [t |-> "class", name |-> "Page", mro |-> {"Page", "Model", "object"}]
BookModel == [t |-> "class", name |-> "Book", mro |-> {"Book", "Model", "object"}]
TagModel == [t |-> "class", name |-> "Tag", mro |-> {"Tag", "Model", "object"}]

\* a plain model of app "Blog": a key, a text column, a foreign key to
\* Image, a many-to-many field, and the reverse side of another model's foreign key
Author ==
    [t |-> "class", name |-> "Author", mro |-> {"Author", "Model", "object"},
     meta |-> [app_label |-> <<"B","l","o","g">>,
               model_name |-> <<"a","u","t","h","o","r">>,
               verbose_name_plural |-> <<"a","u","t","h","o","r","s">>,
               fields |-> << Field("book", FALSE, TRUE, TRUE, BookModel),
                             Field("id", TRUE, FALSE, TRUE, PyNone),
                             Field("title", TRUE, FALSE, FALSE, PyNone),
                             Field("image", TRUE, TRUE, FALSE, ImageModel),
                             Field("tags", FALSE, TRUE, FALSE, TagModel) >>]]

\* a page model of app "news": the parent link to Page that multi-table
\* inheritance creates, a text column and a foreign key to Image
NewsPage ==
    [t |-> "class", name |-> "NewsPage",
     mro |-> {"NewsPage", "Page", "Model", "object"},
     meta |-> [app_label |-> <<"n","e","w","s">>,
               model_name |-> <<"n","e","w","s","p","a","g","e">>,
               verbose_name_plural |-> <<"n","e","w","s"," ","p","a","g","e","s">>,
               fields |-> << Field("page_ptr", TRUE, TRUE, TRUE, PageModel),
                             Field("title", TRUE, FALSE, FALSE, PyNone),
                             Field("photo", TRUE, TRUE, FALSE, ImageModel) >>]]

\* a second page model, of app "events"
EventPage ==
    [t |-> "class", name |-> "EventPage",
     mro |-> {"EventPage", "Page", "Model", "object"},
     meta |-> [app_label |-> <<"e","v","e","n","t","s">>,
               model_name |-> <<"e","v","e","n","t","p","a","g","e">>,
               verbose_name_plural |-> <<"e","v","e","n","t"," ","p","a","g","e","s">>,
               fields |-> << Field("page_ptr", TRUE, TRUE, TRUE, PageModel),
                             Field("title", TRUE, FALSE, FALSE, PyNone) >>]]

\* django.db.models.Model itself: the metaclass gives it no _meta
ModelBaseClass == [t |-> "class", name |-> "Model", mro |-> {"Model", "object"},
                   meta |-> PyNone]
\* a class that is no model
PlainClass == [t |-> "class", name |-> "Form", mro |-> {"Form", "object"},
               meta |-> PyNone]

ValidModels == {Author, NewsPage}
ModelValues ==
    ValidModels \cup
    {PyNone, PyStr(<<>>), PyStr(<<"B","l","o","g",".","A","u","t","h","o","r">>),
     PlainClass, ModelBaseClass}

FieldNames(m) == {m.meta.fields[i].name : i \in 1..Len(m.meta.fields)}

-----------------------------------------------------------------------------
(* The classes a developer declares.  A ModelAdmin subclass is the record *)
(* of its class attributes: ModelAdminDefaults with some of them          *)
(* overridden.  `thumbnail_mixin` says whether ThumbnailMixin is among    *)
(* its bases.                                                             *)

\* the helper classes of .helpers, and a developer's own
HelperClass(name) == [t |-> "class", name |-> name]
PermissionHelper == HelperClass("PermissionHelper")
PagePermissionHelper == HelperClass("PagePermissionHelper")
AdminURLHelper == HelperClass("AdminURLHelper")
PageAdminURLHelper == HelperClass("PageAdminURLHelper")
ButtonHelper == HelperClass("ButtonHelper")
PageButtonHelper == HelperClass("PageButtonHelper")
CustomPermissionHelper == HelperClass("CustomPermissionHelper")
CustomURLHelper == HelperClass("CustomURLHelper")
CustomButtonHelper == HelperClass("CustomButtonHelper")

WagtailRegisterableDefaults ==
    [add_to_settings_menu |-> FALSE, exclude_from_explorer |-> FALSE]

ThumbnailMixinDefaults ==
    [thumb_image_field_name |-> "image", thumb_default |-> PyNone]

ModelAdminDefaults ==
    [base |-> "ModelAdmin",
     add_to_settings_menu |-> WagtailRegisterableDefaults.add_to_settings_menu,
     exclude_from_explorer |-> WagtailRegisterableDefaults.exclude_from_explorer,
     thumbnail_mixin |-> FALSE,
     thumb_image_field_name |-> ThumbnailMixinDefaults.thumb_image_field_name,
     thumb_default |-> ThumbnailMixinDefaults.thumb_default,
     model |-> PyNone,
     menu_label |-> PyNone,
     menu_icon |-> PyNone,
     menu_order |-> PyNone,
     list_display |-> PyTuple(<<PyStr(<<"_","_","s","t","r","_","_">>)>>),
     list_display_add_buttons |-> PyNone,
     list_filter |-> PyTuple(<<>>),
     search_fields |-> PyNone,
     ordering |-> PyNone,
     index_view_extra_css |-> PyList(<<>>),
     index_view_extra_js |-> PyList(<<>>),
     inspect_view_extra_css |-> PyList(<<>>),
     inspect_view_extra_js |-> PyList(<<>>),
     form_view_extra_css |-> PyList(<<>>),
     form_view_extra_js |-> PyList(<<>>),
     inspect_view_fields |-> PyList(<<>>),
     inspect_view_fields_exclude |-> PyList(<<>>),
     inspect_view_enabled |-> FALSE,
     index_template_name |-> PyStr(<<>>),
     create_template_name |-> PyStr(<<>>),
     edit_template_name |-> PyStr(<<>>),
     inspect_template_name |-> PyStr(<<>>),
     delete_template_name |-> PyStr(<<>>),
     choose_parent_template_name |-> PyStr(<<>>),
     permission_helper_class |-> PyNone,
     url_helper_class |-> PyNone,
     button_helper_class |-> PyNone]

ModelAdminGroupDefaults ==
    [base |-> "ModelAdminGroup",
     add_to_settings_menu |-> WagtailRegisterableDefaults.add_to_settings_menu,
     exclude_from_explorer |-> WagtailRegisterableDefaults.exclude_from_explorer,
     items |-> <<>>,
     menu_label |-> PyNone,
     menu_order |-> PyNone,
     menu_icon |-> PyNone]

\* sequences over S of length at most n
SeqUpTo(S, n) == UNION {[1..k -> S] : k \in 0..n}

MenuOrders == {PyNone} \cup {PyInt(n) : n \in (0..MaxMenuOrder) \cup {999, 1000}}
DeclaredFieldNames == {"title", "image"}
FieldLists == {PyList(s) : s \in SeqUpTo(DeclaredFieldNames, MaxFields)}
CustomTemplate == PyStr(<<"m","y",".","h","t","m","l">>)
TemplateNames == {PyStr(<<>>), CustomTemplate}
ThumbDefaults == {PyNone, PyStr(<<"x",".","p","n","g">>)}

\* subclasses that set model and the helper classes
HelperSubclasses ==
    {[ModelAdminDefaults EXCEPT !.model = m, !.permission_helper_class = p,
                                !.url_helper_class = u, !.button_helper_class = b,
                                !.inspect_view_enabled = e] :
        m \in ModelValues, p \in {PyNone, CustomPermissionHelper},
        u \in {PyNone, CustomURLHelper}, b \in {PyNone, CustomButtonHelper},
        e \in BOOLEAN}

\* subclasses that set the menu order
MenuSubclasses ==
    {[ModelAdminDefaults EXCEPT !.model = m, !.menu_order = o] :
        m \in ValidModels, o \in MenuOrders}

\* subclasses that configure the inspect view's fields
InspectSubclasses ==
    {[ModelAdminDefaults EXCEPT !.model = m, !.inspect_view_fields = f,
                                !.inspect_view_fields_exclude = x] :
        m \in ValidModels, f \in FieldLists, x \in FieldLists}

\* subclasses that override templates
TemplateSubclasses ==
    {[ModelAdminDefaults EXCEPT !.model = m,
                                !.index_template_name = t[1],
                                !.create_template_name = t[2],
                                !.edit_template_name = t[3],
                                !.inspect_template_name = t[4],
                                !.delete_template_name = t[5],
                                !.choose_parent_template_name = t[6]] :
        m \in ValidModels, t \in [1..6 -> TemplateNames]}

\* subclasses that mix ThumbnailMixin in
ThumbnailSubclasses ==
    {[ModelAdminDefaults EXCEPT !.model = m, !.thumbnail_mixin = TRUE,
                                !.thumb_image_field_name = n,
                                !.thumb_default = d] :
        m \in ValidModels, n \in {"image", "photo", "picture"}, d \in ThumbDefaults}

\* subclasses that choose the menu and the explorer's treatment
RegisterableSubclasses ==
    {[ModelAdminDefaults EXCEPT !.model = m, !.add_to_settings_menu = s,
                                !.exclude_from_explorer = x,
                                !.inspect_view_enabled = e] :
        m \in ValidModels \cup {PyNone}, s \in BOOLEAN, x \in BOOLEAN, e \in BOOLEAN}

ModelAdminSubclasses ==
    HelperSubclasses \cup MenuSubclasses \cup InspectSubclasses \cup
    TemplateSubclasses \cup ThumbnailSubclasses \cup RegisterableSubclasses

\* the classes a group lists in items
ItemClasses ==
    {[ModelAdminDefaults EXCEPT !.model = m, !.exclude_from_explorer = x,
                                !.inspect_view_enabled = e] :
        m \in ValidModels \cup {PyNone}, x \in BOOLEAN, e \in BOOLEAN}

ModelAdminGroupSubclasses ==
    {[ModelAdminGroupDefaults EXCEPT !.items = i, !.add_to_settings_menu = s] :
        i \in SeqUpTo(ItemClasses, MaxItems), s \in BOOLEAN}
    \cup
    {[ModelAdminGroupDefaults EXCEPT !.items = i, !.menu_order = o] :
        i \in SeqUpTo({[ModelAdminDefaults EXCEPT !.model = Author]}, 1),
        o \in MenuOrders}

Classes == ModelAdminSubclasses \cup ModelAdminGroupSubclasses

\* values a subclass gives the list, menu and asset attributes
TitleColumn == PyStr(<<"t","i","t","l","e">>)
ImageColumn == PyStr(<<"i","m","a","g","e">>)
MenuLabels == {PyNone, PyStr(<<"P","e","o","p","l","e">>)}
MenuIcons == {PyNone, PyStr(<<"u","s","e","r">>)}
ColumnTuples == {PyNone, PyTuple(<<TitleColumn>>)}
AssetA == PyStr(<<"a",".","c","s","s">>)
AssetB == PyStr(<<"b",".","c","s","s">>)

\* subclasses that set the menu's label and icon
MenuLabelSubclasses ==
    {[ModelAdminDefaults EXCEPT !.model = m, !.menu_label = l, !.menu_icon = i,
                                !.exclude_from_explorer = x] :
        m \in ValidModels, l \in MenuLabels, i \in MenuIcons, x \in BOOLEAN}

\* subclasses that configure the listing
ListSubclasses ==
    {[ModelAdminDefaults EXCEPT !.model = Author, !.list_display = d,
                                !.list_display_add_buttons = b,
                                !.list_filter = f, !.search_fields = q,
                                !.ordering = o] :
        d \in {PyTuple(<<>>), ModelAdminDefaults.list_display,
                PyTuple(<<TitleColumn, ImageColumn>>)},
        b \in {PyNone, ImageColumn},
        f \in {PyTuple(<<>>), PyTuple(<<TitleColumn>>)},
        q \in ColumnTuples, o \in ColumnTuples}

\* subclasses that add stylesheets and scripts to the views
AssetSubclasses ==
    {[ModelAdminDefaults EXCEPT !.model = Author,
                                !.index_view_extra_css = a[1],
                                !.index_view_extra_js = a[2],
                                !.inspect_view_extra_css = a[3],
                                !.inspect_view_extra_js = a[4],
                                !.form_view_extra_css = a[5],
                                !.form_view_extra_js = a[6]] :
        a \in [1..6 -> {PyList(<<>>), PyList(<<AssetA>>)}]}
    \cup
    {[ModelAdminDefaults EXCEPT !.model = m,
                                !.index_view_extra_css = PyList(<<AssetA, AssetB>>),
                                !.inspect_view_fields_exclude = x,
                                !.inspect_view_enabled = e] :
        m \in ValidModels, x \in {PyList(<<>>), PyList(<<"title">>)}, e \in BOOLEAN}

\* the classes whose treatment of the explorer is followed
ExplorerItemClasses ==
    {[ModelAdminDefaults EXCEPT !.model = m, !.exclude_from_explorer = x] :
        m \in {Author, NewsPage, EventPage}, x \in BOOLEAN}
ExplorerClasses ==
    ExplorerItemClasses \cup
    {[ModelAdminGroupDefaults EXCEPT !.items = i] :
        i \in SeqUpTo(ExplorerItemClasses, MaxItems)}

\* the classes whose getters are followed call after call
\* (the last are groups that set the menu's label and icon)
GetterClasses ==
    MenuLabelSubclasses \cup ListSubclasses \cup AssetSubclasses \cup
    {[ModelAdminGroupDefaults EXCEPT !.items = i, !.menu_label = l, !.menu_icon = c] :
        i \in SeqUpTo({[ModelAdminDefaults EXCEPT !.model = Author]}, 1),
        l \in MenuLabels, c \in MenuIcons}


-----------------------------------------------------------------------------
(* Collaborators outside options.py: the helper objects, django's url()   *)
(* and the hook registry.  They are kept as the terms the code builds.    *)

\* cls(*args): an object of a helper class, remembering its arguments
Instantiate(cls, args) == [t |-> "instance", class |-> cls.name, args |-> args]

\* url_helper.get_action_url_pattern(action) and .get_action_url_name(action)
get_action_url_pattern(url_helper, action) ==
    [t |-> "pattern", helper |-> url_helper, action |-> action]
get_action_url_name(url_helper, action) ==
    [t |-> "name", helper |-> url_helper, action |-> action]

\* django.conf.urls.url(regex, view, name=name)
url(regex, view, name) == [t |-> "url", regex |-> regex, view |-> view, name |-> name]

\* a page of class model, with the classes that class derives from
PageOf(model) == [type |-> model.name, mro |-> model.mro]

\* the pages of the explorer: a plain page, a news page and an event page
ExplorerPages == {PageOf(m) : m \in {PageModel, NewsPage, EventPage}}

\* a page queryset, by the pages it yields
QuerySet(pages) == [t |-> "queryset", pages |-> pages]

\* queryset.not_type(model): the pages that are no instance of model
not_type(queryset, model) ==
    QuerySet({p \in queryset.pages : model.name \notin p.mro})

\* the bound method self.<func>
BoundMethod(self, func) == [t |-> "method", im_self |-> self.oid, im_func |-> func]

HookNames == {"register_permissions", "register_admin_urls",
              "register_admin_menu_item", "register_settings_menu_item",
              "construct_explorer_page_queryset"}

\* hooks.register(hook_name) applied to fn: fn is appended to the hook's list
hooks_register(registry, hook_name, fn) ==
    [registry EXCEPT ![hook_name] = Append(@, fn)]

\* the closure over self that register_with_wagtail defines
Closure(self, fn) == [t |-> "function", name |-> fn, self |-> self.oid]

-----------------------------------------------------------------------------
(* ModelAdmin *)

get_permission_helper_class(self) ==
    IF Truthy(self.cls.permission_helper_class) THEN self.cls.permission_helper_class
    ELSE IF self.is_pagemodel THEN PagePermissionHelper
    ELSE PermissionHelper

get_url_helper_class(self) ==
    IF Truthy(self.cls.url_helper_class) THEN self.cls.url_helper_class
    ELSE IF self.is_pagemodel THEN PageAdminURLHelper
    ELSE AdminURLHelper

\* faulty variant of get_button_helper_class: it reads the URL helper's override
get_button_helper_class_wrong_override(self) ==
    IF Truthy(self.cls.url_helper_class) THEN self.cls.url_helper_class
    ELSE IF self.is_pagemodel THEN PageButtonHelper
    ELSE ButtonHelper

get_button_helper_class(self) ==
    IF Truthy(self.cls.button_helper_class) THEN self.cls.button_helper_class
    ELSE IF self.is_pagemodel THEN PageButtonHelper
    ELSE ButtonHelper

\* faulty variant of ModelAdmin_init: the URL helper is built from the permission
\* helper's class
ModelAdmin_init_one_helper_class(cls, parent, oid) ==
    IF ~Truthy(cls.model) THEN Raise("ImproperlyConfigured")
    ELSE IF ~IsClass(cls.model) THEN Raise("TypeError")
    ELSE IF ~issubclass(cls.model, "Model") THEN Raise("ImproperlyConfigured")
    ELSE IF cls.model.meta = PyNone THEN Raise("AttributeError")
    ELSE
        LET self0 == [cls |-> cls, is_pagemodel |-> issubclass(cls.model, "Page")]
        IN Return([t |-> "ModelAdmin",
                   oid |-> oid,
                   cls |-> cls,
                   opts |-> cls.model.meta,
                   is_pagemodel |-> self0.is_pagemodel,
                   parent |-> parent,
                   permission_helper |->
                       Instantiate(get_permission_helper_class(self0),
                                   <<cls.model.name, cls.inspect_view_enabled>>),
                   url_helper |->
                       Instantiate(get_permission_helper_class(self0), <<cls.model.name>>)])

\* ModelAdminClass(parent=parent): the object, or the exception __init__ lets escape.
\* issubclass() of something that is no class is a TypeError; Model itself has no _meta.
ModelAdmin_init(cls, parent, oid) ==
    IF ~Truthy(cls.model) THEN Raise("ImproperlyConfigured")
    ELSE IF ~IsClass(cls.model) THEN Raise("TypeError")
    ELSE IF ~issubclass(cls.model, "Model") THEN Raise("ImproperlyConfigured")
    ELSE IF cls.model.meta = PyNone THEN Raise("AttributeError")
    ELSE
        LET self0 == [cls |-> cls, is_pagemodel |-> issubclass(cls.model, "Page")]
        IN Return([t |-> "ModelAdmin",
                   oid |-> oid,
                   cls |-> cls,
                   opts |-> cls.model.meta,
                   is_pagemodel |-> self0.is_pagemodel,
                   parent |-> parent,
                   permission_helper |->
                       Instantiate(get_permission_helper_class(self0),
                                   <<cls.model.name, cls.inspect_view_enabled>>),
                   url_helper |->
                       Instantiate(get_url_helper_class(self0), <<cls.model.name>>)])

ModelAdmin_get_menu_order(self) == Or(self.cls.menu_order, PyInt(999))

ModelAdmin_get_menu_label(self) ==
    Or(self.cls.menu_label, PyStr(title(self.opts.verbose_name_plural)))

ModelAdmin_get_menu_icon(self) ==
    IF Truthy(self.cls.menu_icon) THEN self.cls.menu_icon
    ELSE IF self.is_pagemodel THEN PyStr(<<"d","o","c","-","f","u","l","l","-","i","n","v","e","r","s","e">>)
    ELSE PyStr(<<"s","n","i","p","p","e","t">>)

get_list_display(self, request) == self.cls.list_display

\* get_list_display(request)[0] is an IndexError on an empty list_display
get_list_display_add_buttons(self, request) ==
    IF Truthy(self.cls.list_display_add_buttons)
    THEN Return(self.cls.list_display_add_buttons)
    ELSE IF Len(get_list_display(self, request).v) = 0 THEN Raise("IndexError")
    ELSE Return(get_list_display(self, request).v[1])

get_list_filter(self, request) == self.cls.list_filter

get_ordering(self, request) == Or(self.cls.ordering, PyTuple(<<>>))

get_search_fields(self, request) == Or(self.cls.search_fields, PyTuple(<<>>))

IndexCss == PyStr(<<"w","a","g","t","a","i","l","m","o","d","e","l","a","d","m","i","n","/","c","s","s","/","i","n","d","e","x",".","c","s","s">>)

\* get_index_view_extra_css gives its return value beside the object as the call
\* leaves it.  Faulty variant: the class's own list is extended
get_index_view_extra_css_in_place(self) ==
    LET css == list_extend(self.cls.index_view_extra_css, PyList(<<IndexCss>>))
    IN [ret |-> Return(css), self |-> [self EXCEPT !.cls.index_view_extra_css = css]]

\* css is a new list; extend() changes it and not the attribute it copies from
get_index_view_extra_css(self) ==
    LET css == list_extend(PyList(<<IndexCss>>), self.cls.index_view_extra_css)
    IN [ret |-> Return(css), self |-> self]

get_index_view_extra_js(self) == self.cls.index_view_extra_js
get_form_view_extra_css(self) == self.cls.form_view_extra_css
get_form_view_extra_js(self) == self.cls.form_view_extra_js
get_inspect_view_extra_css(self) == self.cls.inspect_view_extra_css
get_inspect_view_extra_js(self) == self.cls.inspect_view_extra_js

\* the loop of get_inspect_view_fields over model._meta.get_fields()
RECURSIVE found_fields(_, _, _)
found_fields(fields, exclude, found) ==
    IF fields = <<>> THEN found
    ELSE LET f == Head(fields)
             keep == /\ ~(\E i \in 1..Len(exclude) : exclude[i] = f.name)
                     /\ f.concrete
                     /\ \/ ~f.is_relation
                        \/ (~f.auto_created /\ Truthy(f.related_model))
         IN found_fields(Tail(fields), exclude,
                         IF keep THEN Append(found, f.name) ELSE found)

\* faulty variant of get_inspect_view_fields: the derived list ignores
\* inspect_view_fields_exclude
get_inspect_view_fields_no_exclude(self) ==
    IF ~Truthy(self.cls.inspect_view_fields)
    THEN PyList(found_fields(self.cls.model.meta.fields, <<>>, <<>>))
    ELSE self.cls.inspect_view_fields

get_inspect_view_fields(self) ==
    IF ~Truthy(self.cls.inspect_view_fields)
    THEN PyList(found_fields(self.cls.model.meta.fields,
                             self.cls.inspect_view_fields_exclude.v, <<>>))
    ELSE self.cls.inspect_view_fields

\* the action names the views use
ActionNames ==
    [index |-> <<"i","n","d","e","x">>,
     create |-> <<"c","r","e","a","t","e">>,
     edit |-> <<"e","d","i","t">>,
     delete |-> <<"d","e","l","e","t","e">>,
     inspect |-> <<"i","n","s","p","e","c","t">>,
     choose_parent |-> <<"c","h","o","o","s","e","_","p","a","r","e","n","t">>]
Actions == DOMAIN ActionNames

TemplateRoot == <<"m","o","d","e","l","a","d","m","i","n","/">>
Slash == <<"/">>
DotHtml == <<".","h","t","m","l">>

\* faulty variant of get_templates: the app label keeps its case
get_templates_keeps_case(self, action) ==
    LET app_label == self.opts.app_label
        model_name == lower(self.opts.model_name)
    IN PyList(<<
        PyStr(TemplateRoot \o app_label \o Slash \o model_name \o Slash \o action \o DotHtml),
        PyStr(TemplateRoot \o app_label \o Slash \o action \o DotHtml),
        PyStr(TemplateRoot \o action \o DotHtml) >>)

get_templates(self, action) ==
    LET app_label == lower(self.opts.app_label)
        model_name == lower(self.opts.model_name)
    IN PyList(<<
        PyStr(TemplateRoot \o app_label \o Slash \o model_name \o Slash \o action \o DotHtml),
        PyStr(TemplateRoot \o app_label \o Slash \o action \o DotHtml),
        PyStr(TemplateRoot \o action \o DotHtml) >>)

get_index_template(self) ==
    Or(self.cls.index_template_name, get_templates(self, ActionNames.index))
get_choose_parent_template(self) ==
    Or(self.cls.choose_parent_template_name, get_templates(self, ActionNames.choose_parent))
get_inspect_template(self) ==
    Or(self.cls.inspect_template_name, get_templates(self, ActionNames.inspect))
get_create_template(self) ==
    Or(self.cls.create_template_name, get_templates(self, ActionNames.create))
get_edit_template(self) ==
    Or(self.cls.edit_template_name, get_templates(self, ActionNames.edit))
get_delete_template(self) ==
    Or(self.cls.delete_template_name, get_templates(self, ActionNames.delete))

Route(self, action) ==
    url(get_action_url_pattern(self.url_helper, action),
        BoundMethod(self, action \o "_view"),
        get_action_url_name(self.url_helper, action))

\* faulty variant of ModelAdmin.get_admin_urls_for_registration: the choose_parent
\* route is added before the inspect route
ModelAdmin_get_admin_urls_choose_parent_first(self) ==
    LET urls0 == <<Route(self, "index"), Route(self, "create"),
                   Route(self, "edit"), Route(self, "delete")>>
        urls1 == IF self.is_pagemodel
                 THEN urls0 \o <<Route(self, "choose_parent")>> ELSE urls0
        urls2 == IF self.cls.inspect_view_enabled
                 THEN urls1 \o <<Route(self, "inspect")>> ELSE urls1
    IN PyTuple(urls2)

ModelAdmin_get_admin_urls_for_registration(self) ==
    LET urls0 == <<Route(self, "index"), Route(self, "create"),
                   Route(self, "edit"), Route(self, "delete")>>
        urls1 == IF self.cls.inspect_view_enabled
                 THEN urls0 \o <<Route(self, "inspect")>> ELSE urls0
        urls2 == IF self.is_pagemodel
                 THEN urls1 \o <<Route(self, "choose_parent")>> ELSE urls1
    IN PyTuple(urls2)

ModelAdmin_will_modify_explorer_page_queryset(self) ==
    PyBool(self.is_pagemodel /\ self.cls.exclude_from_explorer)

ModelAdmin_modify_explorer_page_queryset(self, parent_page, queryset, request) ==
    IF self.is_pagemodel /\ self.cls.exclude_from_explorer
    THEN not_type(queryset, self.cls.model)
    ELSE queryset

-----------------------------------------------------------------------------
(* ThumbnailMixin *)

AnImage == [t |-> "Image", name |-> "portrait"]

\* the records of a model, by their image-valued attributes
ImageAttributes(m) ==
    {m.meta.fields[i].name :
        i \in {j \in 1..Len(m.meta.fields) : m.meta.fields[j].related_model = ImageModel}}
RecordsOf(m) == [ImageAttributes(m) -> {PyNone, AnImage}]

\* getattr(obj, name, default): the default stands in for a missing attribute,
\* so no AttributeError reaches the caller
getattr(obj, name, default) == IF name \in DOMAIN obj THEN obj[name] ELSE default

ImgTag(src) == [t |-> "safe_html", tag |-> "img", src |-> src]

admin_thumb(self, obj) ==
    LET image == getattr(obj, self.cls.thumb_image_field_name, PyNone)
    IN IF Truthy(image)
       THEN Return(ImgTag([t |-> "rendition_url", image |-> image]))
       ELSE IF Truthy(self.cls.thumb_default)
       THEN Return(ImgTag(self.cls.thumb_default))
       ELSE Return(PyStr(<<>>))

-----------------------------------------------------------------------------
(* ModelAdminGroup *)

\* the loop of ModelAdminGroup.__init__ from item i on: the instances appended,
\* or the exception the first failing ModelAdminClass(parent=self) lets escape
RECURSIVE instantiate_items(_, _, _, _)
instantiate_items(items, i, oid, modeladmin_instances) ==
    IF i > Len(items) THEN Return(modeladmin_instances)
    ELSE LET r == ModelAdmin_init(items[i], [t |-> "ref", oid |-> oid], <<oid[1], i>>)
         IN IF r.ok
            THEN instantiate_items(items, i + 1, oid, Append(modeladmin_instances, r.value))
            ELSE r

ModelAdminGroup_init(cls, oid) ==
    LET r == instantiate_items(cls.items, 1, oid, <<>>)
    IN IF r.ok
       THEN Return([t |-> "ModelAdminGroup", oid |-> oid, cls |-> cls,
                    modeladmin_instances |-> r.value])
       ELSE r

ModelAdminGroup_get_menu_order(self) == Or(self.cls.menu_order, PyInt(999))

get_app_label_from_subitems(self) ==
    IF Len(self.modeladmin_instances) > 0
    THEN PyStr(title(self.modeladmin_instances[1].opts.app_label))
    ELSE PyStr(<<>>)

ModelAdminGroup_get_menu_label(self) ==
    Or(self.cls.menu_label, get_app_label_from_subitems(self))

ModelAdminGroup_get_menu_icon(self) ==
    Or(self.cls.menu_icon, PyStr(<<"i","c","o","n","-","f","o","l","d","e","r","-","o","p","e","n","-","i","n","v","e","r","s","e">>))

\* the loop of ModelAdminGroup.get_admin_urls_for_registration from instance i on
RECURSIVE extend_urls(_, _, _)
extend_urls(instances, i, urls) ==
    IF i > Len(instances) THEN urls
    ELSE extend_urls(instances, i + 1,
                     urls \o ModelAdmin_get_admin_urls_for_registration(instances[i]).v)

\* faulty variant of ModelAdminGroup.get_admin_urls_for_registration: the loop
\* starts at the second member
ModelAdminGroup_get_admin_urls_skips_first(self) ==
    PyTuple(extend_urls(self.modeladmin_instances, 2, <<>>))

ModelAdminGroup_get_admin_urls_for_registration(self) ==
    PyTuple(extend_urls(self.modeladmin_instances, 1, <<>>))

ModelAdminGroup_will_modify_explorer_page_queryset(self) ==
    PyBool(\E i \in 1..Len(self.modeladmin_instances) :
              ModelAdmin_will_modify_explorer_page_queryset(self.modeladmin_instances[i]).v)

\* the loop of ModelAdminGroup.modify_explorer_page_queryset from instance i on
RECURSIVE apply_filters(_, _, _, _, _)
apply_filters(instances, i, parent_page, queryset, request) ==
    IF i > Len(instances) THEN queryset
    ELSE apply_filters(instances, i + 1, parent_page,
                       ModelAdmin_modify_explorer_page_queryset(
                           instances[i], parent_page, queryset, request),
                       request)

\* faulty variant of ModelAdminGroup.modify_explorer_page_queryset: it returns
\* from inside the loop, after the first member
ModelAdminGroup_modify_explorer_first_only(self, parent_page, queryset, request) ==
    IF Len(self.modeladmin_instances) = 0 THEN queryset
    ELSE ModelAdmin_modify_explorer_page_queryset(
             self.modeladmin_instances[1], parent_page, queryset, request)

ModelAdminGroup_modify_explorer_page_queryset(self, parent_page, queryset, request) ==
    apply_filters(self.modeladmin_instances, 1, parent_page, queryset, request)

-----------------------------------------------------------------------------
(* WagtailRegisterable and modeladmin_register *)

IsModelAdmin(x) == x.t = "ModelAdmin"
IsGroup(x) == x.t = "ModelAdminGroup"

will_modify_explorer_page_queryset(self) ==
    IF IsGroup(self) THEN ModelAdminGroup_will_modify_explorer_page_queryset(self)
    ELSE ModelAdmin_will_modify_explorer_page_queryset(self)

modify_explorer_page_queryset(self, parent_page, queryset, request) ==
    IF IsGroup(self)
    THEN ModelAdminGroup_modify_explorer_page_queryset(self, parent_page, queryset, request)
    ELSE ModelAdmin_modify_explorer_page_queryset(self, parent_page, queryset, request)

get_admin_urls_for_registration(self) ==
    IF IsGroup(self) THEN ModelAdminGroup_get_admin_urls_for_registration(self)
    ELSE ModelAdmin_get_admin_urls_for_registration(self)

get_menu_order(self) ==
    IF IsGroup(self) THEN ModelAdminGroup_get_menu_order(self)
    ELSE ModelAdmin_get_menu_order(self)

get_menu_label(self) ==
    IF IsGroup(self) THEN ModelAdminGroup_get_menu_label(self)
    ELSE ModelAdmin_get_menu_label(self)

get_menu_icon(self) ==
    IF IsGroup(self) THEN ModelAdminGroup_get_menu_icon(self)
    ELSE ModelAdmin_get_menu_icon(self)

\* faulty variant of register_with_wagtail: the menu item goes under both menu hooks
register_with_wagtail_both_menus(self, registry) ==
    LET r1 == hooks_register(registry, "register_permissions",
                             Closure(self, "register_permissions"))
        r2 == hooks_register(r1, "register_admin_urls",
                             Closure(self, "register_admin_urls"))
        r3 == hooks_register(r2, "register_settings_menu_item",
                             Closure(self, "register_admin_menu_item"))
        r4 == hooks_register(r3, "register_admin_menu_item",
                             Closure(self, "register_admin_menu_item"))
    IN IF Truthy(will_modify_explorer_page_queryset(self))
       THEN hooks_register(r4, "construct_explorer_page_queryset",
                           Closure(self, "construct_explorer_page_queryset"))
       ELSE r4

\* faulty variant of register_with_wagtail: the two menu hooks are the wrong way round
register_with_wagtail_swapped_menus(self, registry) ==
    LET r1 == hooks_register(registry, "register_permissions",
                             Closure(self, "register_permissions"))
        r2 == hooks_register(r1, "register_admin_urls",
                             Closure(self, "register_admin_urls"))
        menu_hook == IF self.cls.add_to_settings_menu
                     THEN "register_admin_menu_item"
                     ELSE "register_settings_menu_item"
        r3 == hooks_register(r2, menu_hook, Closure(self, "register_admin_menu_item"))
    IN IF Truthy(will_modify_explorer_page_queryset(self))
       THEN hooks_register(r3, "construct_explorer_page_queryset",
                           Closure(self, "construct_explorer_page_queryset"))
       ELSE r3

register_with_wagtail(self, registry) ==
    LET r1 == hooks_register(registry, "register_permissions",
                             Closure(self, "register_permissions"))
        r2 == hooks_register(r1, "register_admin_urls",
                             Closure(self, "register_admin_urls"))
        menu_hook == IF self.cls.add_to_settings_menu
                     THEN "register_settings_menu_item"
                     ELSE "register_admin_menu_item"
        r3 == hooks_register(r2, menu_hook, Closure(self, "register_admin_menu_item"))
    IN IF Truthy(will_modify_explorer_page_queryset(self))
       THEN hooks_register(r3, "construct_explorer_page_queryset",
                           Closure(self, "construct_explorer_page_queryset"))
       ELSE r3

\* modeladmin_class(): the constructor of the class's base
Construct(cls, oid) ==
    IF cls.base = "ModelAdminGroup" THEN ModelAdminGroup_init(cls, oid)
    ELSE ModelAdmin_init(cls, PyNone, oid)

\* how many modeladmin_register calls have registered their hooks
Registrations == Len(hooks["register_permissions"])

\* the callbacks in the registry
HookCount(registry) ==
    Len(registry["register_permissions"]) + Len(registry["register_admin_urls"])
    + Len(registry["register_admin_menu_item"])
    + Len(registry["register_settings_menu_item"])
    + Len(registry["construct_explorer_page_queryset"])

NoCall == [op |-> "none"]
Called(op, self, args, r) == [op |-> op, self |-> self.oid, args |-> args, ret |-> r]

\* the object the calls are made on, by its class
ModelAdmins == IF IsModelAdmin(instance) THEN {instance} ELSE {}
Registerables == IF IsModelAdmin(instance) \/ IsGroup(instance) THEN {instance} ELSE {}

\* the classes registered before the one that is followed
EarlierClasses ==
    {[ModelAdminDefaults EXCEPT !.model = NewsPage, !.exclude_from_explorer = TRUE]}

\* the registry after modeladmin_register of classes[i], classes[i+1], ...
RECURSIVE register_all(_, _, _)
register_all(classes, i, registry) ==
    IF i > Len(classes) THEN registry
    ELSE register_all(classes, i + 1,
                      register_with_wagtail(
                          Construct(classes[i],
                                    <<Len(registry["register_permissions"]) + 1, 0>>).value,
                          registry))

-----------------------------------------------------------------------------
(* The state machine *)

Init ==
    /\ modeladmin_class = PyNone
    /\ instance = PyNone
    /\ raised = PyNone
    /\ hooks \in {register_all(earlier, 1, [h \in HookNames |-> <<>>]) :
                    earlier \in SeqUpTo(EarlierClasses, MaxEarlier)}
    /\ result = NoCall

\* modeladmin_register(modeladmin_class) at startup, for a class among `classes`
modeladmin_register_from(classes) ==
    /\ modeladmin_class = PyNone
    /\ \E c \in classes :
        LET r == Construct(c, <<Registrations + 1, 0>>)
        IN /\ modeladmin_class' = c
           /\ result' = NoCall
           /\ IF r.ok
              THEN /\ instance' = r.value
                   /\ hooks' = register_with_wagtail(r.value, hooks)
                   /\ raised' = PyNone
              ELSE /\ instance' = PyNone
                   /\ hooks' = hooks
                   /\ raised' = Exception(r.exc)

modeladmin_register == modeladmin_register_from(Classes)

Call_get_permission_helper_class ==
    /\ \E self \in ModelAdmins :
        result' = Called("get_permission_helper_class", self, <<>>,
                         Return(get_permission_helper_class(self)))
    /\ UNCHANGED <<modeladmin_class, instance, raised, hooks>>

Call_get_url_helper_class ==
    /\ \E self \in ModelAdmins :
        result' = Called("get_url_helper_class", self, <<>>,
                         Return(get_url_helper_class(self)))
    /\ UNCHANGED <<modeladmin_class, instance, raised, hooks>>

Call_get_button_helper_class ==
    /\ \E self \in ModelAdmins :
        result' = Called("get_button_helper_class", self, <<>>,
                         Return(get_button_helper_class(self)))
    /\ UNCHANGED <<modeladmin_class, instance, raised, hooks>>

Call_get_menu_order ==
    /\ \E self \in Registerables :
        result' = Called("get_menu_order", self, <<>>, Return(get_menu_order(self)))
    /\ UNCHANGED <<modeladmin_class, instance, raised, hooks>>

Call_get_inspect_view_fields ==
    /\ \E self \in ModelAdmins :
        result' = Called("get_inspect_view_fields", self, <<>>,
                         Return(get_inspect_view_fields(self)))
    /\ UNCHANGED <<modeladmin_class, instance, raised, hooks>>

Call_get_templates ==
    /\ \E self \in ModelAdmins, action \in Actions :
        result' = Called("get_templates", self, <<action>>,
                         Return(get_templates(self, ActionNames[action])))
    /\ UNCHANGED <<modeladmin_class, instance, raised, hooks>>

Call_get_index_template ==
    /\ \E self \in ModelAdmins :
        result' = Called("get_index_template", self, <<>>,
                         Return(get_index_template(self)))
    /\ UNCHANGED <<modeladmin_class, instance, raised, hooks>>

Call_get_choose_parent_template ==
    /\ \E self \in ModelAdmins :
        result' = Called("get_choose_parent_template", self, <<>>,
                         Return(get_choose_parent_template(self)))
    /\ UNCHANGED <<modeladmin_class, instance, raised, hooks>>

Call_get_inspect_template ==
    /\ \E self \in ModelAdmins :
        result' = Called("get_inspect_template", self, <<>>,
                         Return(get_inspect_template(self)))
    /\ UNCHANGED <<modeladmin_class, instance, raised, hooks>>

Call_get_create_template ==
    /\ \E self \in ModelAdmins :
        result' = Called("get_create_template", self, <<>>,
                         Return(get_create_template(self)))
    /\ UNCHANGED <<modeladmin_class, instance, raised, hooks>>

Call_get_edit_template ==
    /\ \E self \in ModelAdmins :
        result' = Called("get_edit_template", self, <<>>,
                         Return(get_edit_template(self)))
    /\ UNCHANGED <<modeladmin_class, instance, raised, hooks>>

Call_get_delete_template ==
    /\ \E self \in ModelAdmins :
        result' = Called("get_delete_template", self, <<>>,
                         Return(get_delete_template(self)))
    /\ UNCHANGED <<modeladmin_class, instance, raised, hooks>>

Call_get_admin_urls_for_registration ==
    /\ \E self \in Registerables :
        result' = Called("get_admin_urls_for_registration", self, <<>>,
                         Return(get_admin_urls_for_registration(self)))
    /\ UNCHANGED <<modeladmin_class, instance, raised, hooks>>

Call_will_modify_explorer_page_queryset ==
    /\ \E self \in Registerables :
        result' = Called("will_modify_explorer_page_queryset", self, <<>>,
                         Return(will_modify_explorer_page_queryset(self)))
    /\ UNCHANGED <<modeladmin_class, instance, raised, hooks>>

Call_admin_thumb ==
    /\ \E self \in {a \in ModelAdmins : a.cls.thumbnail_mixin} :
        \E obj \in RecordsOf(self.cls.model) :
            result' = Called("admin_thumb", self, <<obj>>, admin_thumb(self, obj))
    /\ UNCHANGED <<modeladmin_class, instance, raised, hooks>>

Call_get_menu_label ==
    /\ \E self \in Registerables :
        result' = Called("get_menu_label", self, <<>>, Return(get_menu_label(self)))
    /\ UNCHANGED <<modeladmin_class, instance, raised, hooks>>

Call_get_menu_icon ==
    /\ \E self \in Registerables :
        result' = Called("get_menu_icon", self, <<>>, Return(get_menu_icon(self)))
    /\ UNCHANGED <<modeladmin_class, instance, raised, hooks>>

Call_get_list_display ==
    /\ \E self \in ModelAdmins :
        result' = Called("get_list_display", self, <<"request">>, Return(get_list_display(self, "request")))
    /\ UNCHANGED <<modeladmin_class, instance, raised, hooks>>

Call_get_list_display_add_buttons ==
    /\ \E self \in ModelAdmins :
        result' = Called("get_list_display_add_buttons", self, <<"request">>,
                         get_list_display_add_buttons(self, "request"))
    /\ UNCHANGED <<modeladmin_class, instance, raised, hooks>>

Call_get_list_filter ==
    /\ \E self \in ModelAdmins :
        result' = Called("get_list_filter", self, <<"request">>, Return(get_list_filter(self, "request")))
    /\ UNCHANGED <<modeladmin_class, instance, raised, hooks>>

Call_get_ordering ==
    /\ \E self \in ModelAdmins :
        result' = Called("get_ordering", self, <<"request">>, Return(get_ordering(self, "request")))
    /\ UNCHANGED <<modeladmin_class, instance, raised, hooks>>

Call_get_search_fields ==
    /\ \E self \in ModelAdmins :
        result' = Called("get_search_fields", self, <<"request">>, Return(get_search_fields(self, "request")))
    /\ UNCHANGED <<modeladmin_class, instance, raised, hooks>>

Call_get_index_view_extra_css ==
    /\ \E self \in ModelAdmins :
        LET r == get_index_view_extra_css(self)
        IN /\ result' = Called("get_index_view_extra_css", self, <<>>, r.ret)
           /\ instance' = r.self
    /\ UNCHANGED <<modeladmin_class, raised, hooks>>

Call_get_index_view_extra_js ==
    /\ \E self \in ModelAdmins :
        result' = Called("get_index_view_extra_js", self, <<>>, Return(get_index_view_extra_js(self)))
    /\ UNCHANGED <<modeladmin_class, instance, raised, hooks>>

Call_get_form_view_extra_css ==
    /\ \E self \in ModelAdmins :
        result' = Called("get_form_view_extra_css", self, <<>>, Return(get_form_view_extra_css(self)))
    /\ UNCHANGED <<modeladmin_class, instance, raised, hooks>>

Call_get_form_view_extra_js ==
    /\ \E self \in ModelAdmins :
        result' = Called("get_form_view_extra_js", self, <<>>, Return(get_form_view_extra_js(self)))
    /\ UNCHANGED <<modeladmin_class, instance, raised, hooks>>

Call_get_inspect_view_extra_css ==
    /\ \E self \in ModelAdmins :
        result' = Called("get_inspect_view_extra_css", self, <<>>, Return(get_inspect_view_extra_css(self)))
    /\ UNCHANGED <<modeladmin_class, instance, raised, hooks>>

Call_get_inspect_view_extra_js ==
    /\ \E self \in ModelAdmins :
        result' = Called("get_inspect_view_extra_js", self, <<>>, Return(get_inspect_view_extra_js(self)))
    /\ UNCHANGED <<modeladmin_class, instance, raised, hooks>>

\* startup with one of GetterClasses, then its getters, call after call

NextGetters ==
    \/ modeladmin_register_from(GetterClasses)
    \/ Call_get_menu_order
    \/ Call_get_inspect_view_fields
    \/ Call_get_templates
    \/ Call_get_index_template
    \/ Call_get_choose_parent_template
    \/ Call_get_inspect_template
    \/ Call_get_create_template
    \/ Call_get_edit_template
    \/ Call_get_delete_template
    \/ Call_get_admin_urls_for_registration
    \/ Call_will_modify_explorer_page_queryset
    \/ Call_get_menu_label
    \/ Call_get_menu_icon
    \/ Call_get_list_display
    \/ Call_get_list_display_add_buttons
    \/ Call_get_list_filter
    \/ Call_get_ordering
    \/ Call_get_search_fields
    \/ Call_get_index_view_extra_css
    \/ Call_get_index_view_extra_js
    \/ Call_get_form_view_extra_css
    \/ Call_get_form_view_extra_js
    \/ Call_get_inspect_view_extra_css
    \/ Call_get_inspect_view_extra_js

SpecGetters == Init /\ [][NextGetters]_vars

\* the explorer's construct_explorer_page_queryset call, as the closure passes it on
Call_modify_explorer_page_queryset ==
    /\ \E self \in Registerables, pages \in SUBSET ExplorerPages :
        LET parent_page == PageOf(PageModel)
            queryset == QuerySet(pages)
        IN result' = Called("modify_explorer_page_queryset", self,
                            <<parent_page, queryset, "request">>,
                            Return(modify_explorer_page_queryset(
                                       self, parent_page, queryset, "request")))
    /\ UNCHANGED <<modeladmin_class, instance, raised, hooks>>

\* startup with one of ExplorerClasses, then the explorer's calls
NextExplorer ==
    \/ modeladmin_register_from(ExplorerClasses)
    \/ Call_will_modify_explorer_page_queryset
    \/ Call_modify_explorer_page_queryset

SpecExplorer == Init /\ [][NextExplorer]_vars

Next ==
    \/ modeladmin_register
    \/ Call_get_permission_helper_class
    \/ Call_get_url_helper_class
    \/ Call_get_button_helper_class
    \/ Call_get_menu_order
    \/ Call_get_inspect_view_fields
    \/ Call_get_templates
    \/ Call_get_index_template
    \/ Call_get_choose_parent_template
    \/ Call_get_inspect_template
    \/ Call_get_create_template
    \/ Call_get_edit_template
    \/ Call_get_delete_template
    \/ Call_get_admin_urls_for_registration
    \/ Call_will_modify_explorer_page_queryset
    \/ Call_admin_thumb

Spec == Init /\ [][Next]_vars

-----------------------------------------------------------------------------
(* Properties *)

\* the modeladmin_register call has been made, with a ModelAdmin subclass
RegisteredModelAdminClass ==
    modeladmin_class # PyNone /\ modeladmin_class.base = "ModelAdmin"

\* model is a class derived from Model that carries _meta
IsDataModel(m) == IsClass(m) /\ issubclass(m, "Model") /\ m.meta # PyNone

\* C1: constructing a ModelAdmin subclass whose model is unset/falsy or is not a
\* subclass of Model fails with ImproperlyConfigured and yields no instance.
C1_InvalidModelIsImproperlyConfigured ==
    (/\ RegisteredModelAdminClass
     /\ \/ ~Truthy(modeladmin_class.model)
        \/ ~(IsClass(modeladmin_class.model) /\ issubclass(modeladmin_class.model, "Model")))
    => (raised = Exception("ImproperlyConfigured") /\ instance = PyNone)

\* C2: with a valid data-model class as model, construction succeeds and the object
\* holds a permission helper built from get_permission_helper_class() and a URL
\* helper built from get_url_helper_class(), neither of them None.
C2_ValidModelConstructs ==
    (RegisteredModelAdminClass /\ IsDataModel(modeladmin_class.model))
    => /\ raised = PyNone
       /\ IsModelAdmin(instance)
       /\ instance.cls = modeladmin_class
       /\ instance.permission_helper # PyNone
       /\ instance.url_helper # PyNone
       /\ instance.permission_helper.class = get_permission_helper_class(instance).name
       /\ instance.permission_helper.args =
              <<modeladmin_class.model.name, modeladmin_class.inspect_view_enabled>>
       /\ instance.url_helper.class = get_url_helper_class(instance).name
       /\ instance.url_helper.args = <<modeladmin_class.model.name>>

C2_Witness ==
    /\ IsModelAdmin(instance)
    /\ instance.is_pagemodel
    /\ instance.cls.url_helper_class = CustomURLHelper
    /\ instance.cls.permission_helper_class = PyNone
    /\ instance.permission_helper.class = "PagePermissionHelper"
    /\ instance.url_helper.class = "CustomURLHelper"

\* C3: get_menu_order() of a ModelAdmin or a ModelAdminGroup returns menu_order
\* whenever it is set, 0 included, and 999 only when it is unset.
C3_MenuOrderIsTheSetValue ==
    result.op = "get_menu_order"
    => result.ret.value = (IF instance.cls.menu_order # PyNone
                           THEN instance.cls.menu_order ELSE PyInt(999))

\* the names in a Python list of names
Names(list) == {list.v[i] : i \in 1..Len(list.v)}

\* C4 as stated: whatever inspect_view_fields and inspect_view_fields_exclude are,
\* get_inspect_view_fields() returns no name that inspect_view_fields_exclude lists.
C4_NeverAnExcludedName ==
    result.op = "get_inspect_view_fields"
    => Names(result.ret.value) \cap Names(instance.cls.inspect_view_fields_exclude) = {}

\* C4, amended: with inspect_view_fields empty, get_inspect_view_fields() returns no
\* name that inspect_view_fields_exclude lists; with inspect_view_fields populated it
\* returns inspect_view_fields as it is.
C4_ExcludeAppliesToDerivedList ==
    result.op = "get_inspect_view_fields"
    => IF Len(instance.cls.inspect_view_fields.v) = 0
       THEN Names(result.ret.value) \cap Names(instance.cls.inspect_view_fields_exclude) = {}
       ELSE result.ret.value = instance.cls.inspect_view_fields

C4_Witness ==
    /\ result.op = "get_inspect_view_fields"
    /\ Len(instance.cls.inspect_view_fields.v) = 0
    /\ "title" \in Names(instance.cls.inspect_view_fields_exclude)
    /\ "title" \in FieldNames(instance.cls.model)
    /\ "image" \in Names(result.ret.value)

\* where member i's routes start in the group's tuple
RECURSIVE C5_Offset(_, _)
C5_Offset(members, i) ==
    IF i = 1 THEN 0
    ELSE C5_Offset(members, i - 1)
         + Len(ModelAdmin_get_admin_urls_for_registration(members[i - 1]).v)

\* C5: a group's get_admin_urls_for_registration() is the concatenation, in the order
\* of items, of its members' own tuples: member i is built from items[i], its routes
\* sit one after another right after those of the members before it, and nothing else
\* is in the tuple (the empty tuple for no members).
C5_GroupUrlsAreMembersUrlsInOrder ==
    (result.op = "get_admin_urls_for_registration" /\ IsGroup(instance))
    => LET members == instance.modeladmin_instances
           urls == result.ret.value
           n == Len(members)
       IN /\ urls.t = "tuple"
          /\ n = Len(instance.cls.items)
          /\ \A i \in 1..n : members[i].cls = instance.cls.items[i]
          /\ Len(urls.v) =
                IF n = 0 THEN 0
                ELSE C5_Offset(members, n)
                     + Len(ModelAdmin_get_admin_urls_for_registration(members[n]).v)
          /\ \A i \in 1..n :
                LET own == ModelAdmin_get_admin_urls_for_registration(members[i]).v
                IN \A j \in 1..Len(own) : urls.v[C5_Offset(members, i) + j] = own[j]

C5_Witness ==
    /\ result.op = "get_admin_urls_for_registration"
    /\ IsGroup(instance)
    /\ Len(instance.modeladmin_instances) = 2
    /\ instance.modeladmin_instances[1].is_pagemodel
    /\ instance.modeladmin_instances[1].cls.inspect_view_enabled
    /\ ~instance.modeladmin_instances[2].is_pagemodel
    /\ Len(result.ret.value.v) = 10

\* the override attribute get_<action>_template() reads
C6_Override(cls, action) ==
    CASE action = "index" -> cls.index_template_name
      [] action = "create" -> cls.create_template_name
      [] action = "edit" -> cls.edit_template_name
      [] action = "delete" -> cls.delete_template_name
      [] action = "inspect" -> cls.inspect_template_name
      [] action = "choose_parent" -> cls.choose_parent_template_name

\* <root><app>/<model>/<action>.html, <root><app>/<action>.html, <root><action>.html
C6_Scheme(root, app, model, action) ==
    PyList(<< PyStr(root \o app \o <<"/">> \o model \o <<"/">> \o action
                    \o <<".","h","t","m","l">>),
              PyStr(root \o app \o <<"/">> \o action \o <<".","h","t","m","l">>),
              PyStr(root \o action \o <<".","h","t","m","l">>) >>)

C6_Resolves(root) ==
    \A action \in Actions :
        result.op = "get_" \o action \o "_template"
        => result.ret.value =
              IF C6_Override(instance.cls, action) # PyStr(<<>>)
              THEN C6_Override(instance.cls, action)
              ELSE C6_Scheme(root,
                             lower(instance.cls.model.meta.app_label),
                             lower(instance.cls.model.meta.model_name),
                             ActionNames[action])

\* C6 as stated: get_<action>_template() returns the override when set, otherwise the
\* list admin/<app>/<model>/<action>.html, admin/<app>/<action>.html,
\* admin/<action>.html, app label and model name lower-cased.
C6_TemplatesUnderAdmin == C6_Resolves(<<"a","d","m","i","n","/">>)

\* C6, amended: the three names are modeladmin/<app>/<model>/<action>.html,
\* modeladmin/<app>/<action>.html, modeladmin/<action>.html.
C6_TemplatesUnderModeladmin ==
    C6_Resolves(<<"m","o","d","e","l","a","d","m","i","n","/">>)

C6_Witness ==
    /\ result.op = "get_edit_template"
    /\ instance.cls.edit_template_name = PyStr(<<>>)
    /\ instance.cls.index_template_name = CustomTemplate
    /\ instance.cls.model = Author
    /\ Len(result.ret.value.v) = 3

\* C7: a ThumbnailMixin subclass whose thumb_image_field_name names no field of the
\* model fails at construction with ImproperlyConfigured.
C7_UnknownThumbFieldFailsConstruction ==
    (/\ RegisteredModelAdminClass
     /\ modeladmin_class.thumbnail_mixin
     /\ IsDataModel(modeladmin_class.model)
     /\ modeladmin_class.thumb_image_field_name \notin FieldNames(modeladmin_class.model))
    => (raised = Exception("ImproperlyConfigured") /\ instance = PyNone)

\* C8 as stated: a modeladmin_register call that registers adds between four and six
\* callbacks to the registry.
C8_FourToSixCallbacks ==
    [][(modeladmin_class' # modeladmin_class /\ raised' = PyNone)
       => (HookCount(hooks') - HookCount(hooks)) \in 4..6]_vars

\* C8, amended: a modeladmin_register call that registers adds three or four
\* callbacks to the registry.
C8_ThreeOrFourCallbacks ==
    [][(modeladmin_class' # modeladmin_class /\ raised' = PyNone)
       => (HookCount(hooks') - HookCount(hooks)) \in 3..4]_vars

C8_Witness ==
    /\ IsGroup(instance)
    /\ Len(hooks["register_permissions"]) = 2
    /\ HookCount(hooks) = 7
    /\ Len(hooks["register_settings_menu_item"]) = 1

\* the actions ModelAdmin.get_admin_urls_for_registration() routes, in order
C9_Routed(cls) ==
    <<"index", "create", "edit", "delete">>
    \o (IF cls.inspect_view_enabled THEN <<"inspect">> ELSE <<>>)
    \o (IF issubclass(cls.model, "Page") THEN <<"choose_parent">> ELSE <<>>)

C9_View ==
    [index |-> "index_view", create |-> "create_view", edit |-> "edit_view",
     delete |-> "delete_view", inspect |-> "inspect_view",
     choose_parent |-> "choose_parent_view"]

\* C9: ModelAdmin.get_admin_urls_for_registration() returns the routes index, create,
\* edit, delete, then inspect iff inspect_view_enabled, then choose_parent iff the
\* model is a page model; each holds the URL helper's pattern and name for its action
\* and the object's own view method for it.
C9_RoutesInFixedOrder ==
    (result.op = "get_admin_urls_for_registration" /\ IsModelAdmin(instance))
    => LET urls == result.ret.value
           routed == C9_Routed(instance.cls)
       IN /\ urls.t = "tuple"
          /\ Len(urls.v) = Len(routed)
          /\ \A i \in 1..Len(routed) :
                /\ urls.v[i].regex =
                      [t |-> "pattern", helper |-> instance.url_helper, action |-> routed[i]]
                /\ urls.v[i].name =
                      [t |-> "name", helper |-> instance.url_helper, action |-> routed[i]]
                /\ urls.v[i].view =
                      [t |-> "method", im_self |-> instance.oid,
                       im_func |-> C9_View[routed[i]]]

C9_Witness ==
    /\ result.op = "get_admin_urls_for_registration"
    /\ IsModelAdmin(instance)
    /\ instance.cls.inspect_view_enabled
    /\ instance.is_pagemodel
    /\ Len(result.ret.value.v) = 6
    /\ result.ret.value.v[5].view.im_func = "inspect_view"

C10_Resolved(override, model, page_class, generic_class) ==
    IF override # PyNone THEN override
    ELSE IF issubclass(model, "Page") THEN page_class ELSE generic_class

\* C10: each of get_permission_helper_class(), get_url_helper_class() and
\* get_button_helper_class() returns the *_helper_class override when one is set,
\* otherwise the page helper class for a page model and the generic one for any
\* other model: the override and the model's kind decide it, nothing else.
C10_HelperClassResolution ==
    /\ result.op = "get_permission_helper_class"
       => result.ret.value = C10_Resolved(instance.cls.permission_helper_class,
                                          instance.cls.model,
                                          PagePermissionHelper, PermissionHelper)
    /\ result.op = "get_url_helper_class"
       => result.ret.value = C10_Resolved(instance.cls.url_helper_class,
                                          instance.cls.model,
                                          PageAdminURLHelper, AdminURLHelper)
    /\ result.op = "get_button_helper_class"
       => result.ret.value = C10_Resolved(instance.cls.button_helper_class,
                                          instance.cls.model,
                                          PageButtonHelper, ButtonHelper)

C10_Witness ==
    /\ result.op = "get_button_helper_class"
    /\ instance.cls.button_helper_class = PyNone
    /\ instance.cls.permission_helper_class = CustomPermissionHelper
    /\ instance.is_pagemodel
    /\ result.ret.value = PageButtonHelper

\* C11: no getter or resolver call changes the object: a step that is a method call
\* leaves the object and every attribute of its class as they were, and a call that
\* repeats the one before it, with the same arguments, returns an equal result
\* (get_index_view_extra_css() gathers nothing from call to call).
C11_GettersLeaveTheObjectAlone ==
    [][(modeladmin_class # PyNone /\ modeladmin_class' = modeladmin_class)
       => /\ instance' = instance
          /\ instance'.cls = modeladmin_class
          /\ (result.op = result'.op /\ result.args = result'.args)
             => result'.ret = result.ret]_vars

C11_Witness ==
    /\ result.op = "get_index_view_extra_css"
    /\ instance.cls.index_view_extra_css = PyList(<<AssetA, AssetB>>)
    /\ result.ret.value = PyList(<<IndexCss, AssetA, AssetB>>)
    /\ instance.cls = modeladmin_class

\* what a registration appends to a hook's list
C12_Added(h) == SubSeq(hooks'[h], Len(hooks[h]) + 1, Len(hooks'[h]))

\* a ModelAdmin class whose explorer filter has an effect
C12_ExcludedPageClass(cls) ==
    issubclass(cls.model, "Page") /\ cls.exclude_from_explorer

\* C12: a registration leaves what the registry held in place and appends exactly one
\* callback of the new object under register_permissions, one under
\* register_admin_urls, one under register_settings_menu_item if add_to_settings_menu
\* is true and otherwise one under register_admin_menu_item (never under both), and
\* one under construct_explorer_page_queryset iff will_modify_explorer_page_queryset()
\* is true then: for a ModelAdmin iff the model is a page model and
\* exclude_from_explorer is true, for a group iff that holds of a member.
C12_OneCallbackPerHook ==
    [][(modeladmin_class' # modeladmin_class /\ raised' = PyNone)
       => LET cls == modeladmin_class'
              own(fn) == <<[t |-> "function", name |-> fn, self |-> instance'.oid]>>
              wanted ==
                  IF cls.base = "ModelAdmin" THEN C12_ExcludedPageClass(cls)
                  ELSE \E i \in 1..Len(cls.items) : C12_ExcludedPageClass(cls.items[i])
          IN /\ \A h \in HookNames : SubSeq(hooks'[h], 1, Len(hooks[h])) = hooks[h]
             /\ C12_Added("register_permissions") = own("register_permissions")
             /\ C12_Added("register_admin_urls") = own("register_admin_urls")
             /\ C12_Added("register_settings_menu_item") =
                   (IF cls.add_to_settings_menu
                    THEN own("register_admin_menu_item") ELSE <<>>)
             /\ C12_Added("register_admin_menu_item") =
                   (IF cls.add_to_settings_menu
                    THEN <<>> ELSE own("register_admin_menu_item"))
             /\ C12_Added("construct_explorer_page_queryset") =
                   (IF wanted THEN own("construct_explorer_page_queryset") ELSE <<>>)
             /\ wanted = will_modify_explorer_page_queryset(instance').v]_vars

C12_Witness ==
    /\ IsModelAdmin(instance)
    /\ instance.cls.add_to_settings_menu
    /\ instance.is_pagemodel
    /\ instance.cls.exclude_from_explorer
    /\ Len(hooks["register_permissions"]) = 2
    /\ Len(hooks["register_admin_urls"]) = 2
    /\ Len(hooks["register_settings_menu_item"]) = 1
    /\ Len(hooks["register_admin_menu_item"]) = 1
    /\ Len(hooks["construct_explorer_page_queryset"]) = 2

\* a member class whose filter takes its model's pages out
C13_Excludes(cls) == issubclass(cls.model, "Page") /\ cls.exclude_from_explorer

\* C13: a group's will_modify_explorer_page_queryset() is true iff some member is a
\* page model's with exclude_from_explorer true (false for no members), and its
\* modify_explorer_page_queryset() returns the queryset without the pages of exactly
\* those members' models, whatever the order of the members; every other member
\* leaves it as it is.
C13_GroupExplorerFilter ==
    IsGroup(instance)
    => LET items == instance.cls.items
           excluded == {items[i].model.name :
                           i \in {j \in 1..Len(items) : C13_Excludes(items[j])}}
       IN /\ result.op = "will_modify_explorer_page_queryset"
             => result.ret.value = PyBool(excluded # {})
          /\ result.op = "modify_explorer_page_queryset"
             => /\ result.ret.value.t = "queryset"
                /\ result.ret.value.pages =
                      {p \in result.args[2].pages : p.mro \cap excluded = {}}

C13_Witness ==
    /\ IsGroup(instance)
    /\ Len(instance.cls.items) = 2
    /\ instance.cls.items[1].model = EventPage
    /\ instance.cls.items[1].exclude_from_explorer
    /\ instance.cls.items[2].model = NewsPage
    /\ instance.cls.items[2].exclude_from_explorer
    /\ result.op = "modify_explorer_page_queryset"
    /\ result.args[2].pages = ExplorerPages
    /\ result.ret.value.pages = {PageOf(PageModel)}

====
